---- MODULE Spec2Model ----
(***************************************************************************)
(* A model of viewbuilder-core: the Position value type                   *)
(* (layout/position.rs), the three-tier transform hierarchy with its      *)
(* reference forwarding (transform/mod.rs, transform/impls.rs) and the    *)
(* inversion / revert relation (transform.rs), together with the concrete *)
(* transforms the crate documents and tests: Add, Sub and SequencedAdd.   *)
(***************************************************************************)
EXTENDS Integers, Sequences, FiniteSets, TLC

VARIABLES
    \* ---- layout/position.rs
    slot,       \* slot[s]: the Position held by local s
    made,       \* made[s]: how slot[s] was constructed, and from what
    obs,        \* result of the accessor / comparison evaluated last
    \* ---- transform/mod.rs, transform/impls.rs
    obj,        \* the owned transform values: obj.add : Add, obj.seq : SequencedAdd
    bind,       \* bind[b]: "unborn" | "live" | "moved", per binding
    ret,        \* the call made last: operation, binding, input, output
    total,      \* the running total threaded through SequencedAdd
    hist,       \* history of the SequencedAdd value: seq0, total0, calls
    onced,      \* bindings holding a value that apply_once was called on
    afterOnce,  \* bindings used again after apply_once was called on them
    aborted,    \* the thread of the tier scenario panicked
    \* ---- transform.rs
    shared,     \* the transforms shared by every context: shared.add, shared.sub
    shared0,    \* their state at construction
    ctx,        \* ctx[c]: the frame of execution context c
    inverses,   \* every inverse value built by invert so far
    invertCalls,\* number of invert calls made so far
    overflow_checks \* the build profile: TRUE panics on overflow, FALSE wraps

posVars  == <<slot, made, obs>>
tierVars == <<obj, bind, ret, total, hist, onced, afterOnce, aborted>>
invVars  == <<shared, shared0, ctx, inverses, invertCalls>>
vars     == <<slot, made, obs, obj, bind, ret, total, hist, onced,
              afterOnce, aborted, shared, shared0, ctx, inverses,
              invertCalls, overflow_checks>>

\* What a step of one component leaves alone.
outsidePosition == <<obj, bind, ret, total, hist, onced, afterOnce, aborted,
                     shared, shared0, ctx, inverses, invertCalls, overflow_checks>>
outsideTiers    == <<slot, made, obs, shared, shared0, ctx, inverses,
                     invertCalls, overflow_checks>>
outsideInvert   == <<slot, made, obs, obj, bind, ret, total, hist, onced,
                     afterOnce, aborted, overflow_checks>>

(***************************************************************************)
(* f64.  A value is NaN, an infinity or a finite number; finite magnitudes *)
(* are kept in halves (m = 5 is 2.5) and the sign bit is kept apart, so    *)
(* that -0.0 and +0.0 are two values.                                      *)
(***************************************************************************)
F64(k, neg, m) == [k |-> k, neg |-> neg, m |-> m]
NaN      == F64("nan", FALSE, 0)
PosInf   == F64("inf", FALSE, 0)
PosZero  == F64("fin", FALSE, 0)
NegZero  == F64("fin", TRUE, 0)
One      == F64("fin", FALSE, 2)
Two      == F64("fin", FALSE, 4)
Three    == F64("fin", FALSE, 6)
NegTwoAndHalf == F64("fin", TRUE, 5)

F64Values == {PosZero, NegZero, One, Two, Three, NegTwoAndHalf, PosInf, NaN}

IsNaN(a) == a.k = "nan"

\* IEEE 754 `==` on f64: NaN equals nothing, -0.0 equals +0.0.
F64Eq(a, b) ==
    /\ ~IsNaN(a)
    /\ ~IsNaN(b)
    /\ \/ a = b
       \/ (a.k = "fin" /\ b.k = "fin" /\ a.m = 0 /\ b.m = 0)

(***************************************************************************)
(* simba's f64x2: two lanes.                                               *)
(***************************************************************************)
X == 0
Y == 1
Lanes == {X, Y}

f64x2_new(x, y) == <<x, y>>
f64x2_zero == <<PosZero, PosZero>>
f64x2_extract(v, i) == v[i + 1]

\* PartialEq of the packed vector: every lane compares equal.
f64x2_eq_lane0(a, b) == F64Eq(f64x2_extract(a, X), f64x2_extract(b, X))
f64x2_eq(a, b) == \A i \in Lanes : F64Eq(f64x2_extract(a, i), f64x2_extract(b, i))

(***************************************************************************)
(* Position                                                                *)
(***************************************************************************)
Position_from(origin) == [origin |-> origin]

Position_new_swapped(x, y) == Position_from(f64x2_new(y, x))
Position_new(x, y) == Position_from(f64x2_new(x, y))

Position_origin_ones == Position_from(f64x2_new(One, One))
Position_origin == Position_from(f64x2_zero)

Position_default == Position_origin

Position_x(self) == f64x2_extract(self.origin, X)
Position_y(self) == f64x2_extract(self.origin, Y)

\* #[derive(PartialEq)]: the single field's PartialEq.
Position_eq(a, b) == f64x2_eq(a.origin, b.origin)

Slots == {1, 2}
NoObs == [op |-> "none", s |-> 1, t |-> 1, val |-> PosZero, res |-> FALSE]
Made(ctor, x, y) == [ctor |-> ctor, x |-> x, y |-> y]

InitPosition ==
    /\ slot = [s \in Slots |-> Position_default]
    /\ made = [s \in Slots |-> Made("default", PosZero, PosZero)]
    /\ obs = NoObs

\* let p = Position::new(x, y);
PNew(s, x, y) ==
    /\ slot' = [slot EXCEPT ![s] = Position_new(x, y)]
    /\ made' = [made EXCEPT ![s] = Made("new", x, y)]
    /\ obs' = NoObs
    /\ UNCHANGED outsidePosition

\* let p = Position::origin();
POrigin(s) ==
    /\ slot' = [slot EXCEPT ![s] = Position_origin]
    /\ made' = [made EXCEPT ![s] = Made("origin", PosZero, PosZero)]
    /\ obs' = NoObs
    /\ UNCHANGED outsidePosition

\* let p = Position::default();
PDefault(s) ==
    /\ slot' = [slot EXCEPT ![s] = Position_default]
    /\ made' = [made EXCEPT ![s] = Made("default", PosZero, PosZero)]
    /\ obs' = NoObs
    /\ UNCHANGED outsidePosition

\* p.x()
PGetX(s) ==
    /\ obs' = [op |-> "x", s |-> s, t |-> s, val |-> Position_x(slot[s]), res |-> FALSE]
    /\ UNCHANGED <<slot, made>>
    /\ UNCHANGED outsidePosition

\* p.y()
PGetY(s) ==
    /\ obs' = [op |-> "y", s |-> s, t |-> s, val |-> Position_y(slot[s]), res |-> FALSE]
    /\ UNCHANGED <<slot, made>>
    /\ UNCHANGED outsidePosition

\* p == q
PEq(s, t) ==
    /\ obs' = [op |-> "eq", s |-> s, t |-> t, val |-> PosZero,
               res |-> Position_eq(slot[s], slot[t])]
    /\ UNCHANGED <<slot, made>>
    /\ UNCHANGED outsidePosition

PositionNext ==
    \/ \E s \in Slots, x \in F64Values, y \in F64Values : PNew(s, x, y)
    \/ \E s \in Slots : POrigin(s)
    \/ \E s \in Slots : PDefault(s)
    \/ \E s \in Slots : PGetX(s)
    \/ \E s \in Slots : PGetY(s)
    \/ \E s \in Slots, t \in Slots : PEq(s, t)

(***************************************************************************)
(* i32.  `a + b` and `a - b` on i32 panic on overflow in a build with       *)
(* overflow checks and wrap in two's complement in a build without; the    *)
(* build profile is fixed at start.  A result is [ok, v]: ok = FALSE is a  *)
(* panic.  The wrapped value is computed without leaving the 32-bit range. *)
(***************************************************************************)
I32_MAX == 2147483647
I32_MIN == (-I32_MAX) - 1

Returned(v) == [ok |-> TRUE, v |-> v]
Panic == [ok |-> FALSE, v |-> 0]

AddOverflows(a, b) ==
    \/ (b > 0 /\ a > I32_MAX - b)
    \/ (b < 0 /\ a < I32_MIN - b)

WrappingAdd(a, b) ==
    IF b > 0 /\ a > I32_MAX - b THEN (a + I32_MIN) + (b + I32_MIN)
    ELSE IF b < 0 /\ a < I32_MIN - b THEN (a - I32_MIN) + (b - I32_MIN)
    ELSE a + b

SubOverflows(a, b) ==
    \/ (b < 0 /\ a > I32_MAX + b)
    \/ (b > 0 /\ a < I32_MIN + b)

WrappingSub(a, b) ==
    IF b < 0 /\ a > I32_MAX + b THEN (a + I32_MIN) - (b - I32_MIN)
    ELSE IF b > 0 /\ a < I32_MIN + b THEN (a - I32_MIN) - (b + I32_MIN)
    ELSE a - b

i32_add(a, b) ==
    IF AddOverflows(a, b) /\ overflow_checks THEN Panic
    ELSE Returned(WrappingAdd(a, b))

i32_sub(a, b) ==
    IF SubOverflows(a, b) /\ overflow_checks THEN Panic
    ELSE Returned(WrappingSub(a, b))

(***************************************************************************)
(* transform/mod.rs: the documented transforms of the three-tier hierarchy *)
(* An apply_mut yields [self, out]: the transform after the call and the   *)
(* result.                                                                 *)
(***************************************************************************)
\* struct Add(i32): Transform, MutableTransform, OnceTransform
Add_apply(self, input) == i32_add(input, self.value)

Add_apply_mut_twice(self, input) ==
    [self |-> self,
     out |-> IF Add_apply(self, input).ok
             THEN Add_apply(self, Add_apply(self, input).v) ELSE Panic]
Add_apply_mut(self, input) == [self |-> self, out |-> Add_apply(self, input)]

Add_apply_once(self, input) == Add_apply(self, input)

\* struct SequencedAdd(Vec<i32>): MutableTransform, OnceTransform
Vec_pop(seq) ==
    IF Len(seq) = 0 THEN [some |-> FALSE, value |-> 0, seq |-> seq]
    ELSE [some |-> TRUE, value |-> seq[Len(seq)], seq |-> SubSeq(seq, 1, Len(seq) - 1)]

SequencedAdd_apply_mut_first(self, input) ==
    IF Len(self.seq) = 0 THEN [self |-> self, out |-> Returned(input)]
    ELSE [self |-> [seq |-> Tail(self.seq)], out |-> i32_add(input, Head(self.seq))]
SequencedAdd_apply_mut(self, input) ==
    LET popped == Vec_pop(self.seq) IN
    IF popped.some
    THEN [self |-> [seq |-> popped.seq], out |-> i32_add(input, popped.value)]
    ELSE [self |-> [seq |-> popped.seq], out |-> Returned(input)]

SequencedAdd_apply_once(self, input) == SequencedAdd_apply_mut(self, input).out

(***************************************************************************)
(* Bindings.  "add" and "seq" own the two transform values; "r_add" is a   *)
(* shared reference &Add and "m_seq" a mutable reference &mut SequencedAdd. *)
(***************************************************************************)
Owners     == {"add", "seq"}
SharedRefs == {"r_add"}
MutRefs    == {"m_seq"}
Refs       == SharedRefs \cup MutRefs
Bindings   == Owners \cup Refs
Ops        == {"apply", "apply_mut", "apply_once"}

Kind(b) == IF b \in Owners THEN "owned" ELSE IF b \in SharedRefs THEN "shared" ELSE "mut"
Target(b) == IF b \in {"add", "r_add"} THEN "add" ELSE "seq"

\* Which capability each type has.
Implements(b, op) ==
    CASE b = "add"   -> TRUE
      [] b = "seq"   -> op \in {"apply_mut", "apply_once"}
      [] b = "r_add" -> TRUE
      [] OTHER       -> op \in {"apply_mut", "apply_once"}

\* Passing a value by `self` moves it unless its type is Copy; of the types
\* here only the shared reference is.
IsCopy_all(b) == TRUE
IsCopy(b) == Kind(b) = "shared"

\* The capability called on the referent, by the referent's type.
\* A result is [heap, out].
T_apply(heap, o, input) == Add_apply(heap[o], input)

T_apply_mut(heap, o, input) ==
    IF o = "add"
    THEN LET r == Add_apply_mut(heap.add, input) IN
         [heap |-> [heap EXCEPT !.add = r.self], out |-> r.out]
    ELSE LET r == SequencedAdd_apply_mut(heap.seq, input) IN
         [heap |-> [heap EXCEPT !.seq = r.self], out |-> r.out]

\* apply_once takes the value itself: SequencedAdd pops from it (`mut self`)
\* before it is dropped, and the heap shows the value as it was left.
T_apply_once(heap, o, input) ==
    IF o = "add"
    THEN [heap |-> heap, out |-> Add_apply_once(heap.add, input)]
    ELSE [heap |-> [heap EXCEPT !.seq = SequencedAdd_apply_mut(heap.seq, input).self],
          out |-> SequencedAdd_apply_once(heap.seq, input)]

(***************************************************************************)
(* transform/impls.rs: the forwarding implementations.                     *)
(***************************************************************************)
\* impl Transform for &T:            (**self).apply(input)
Ref_apply(heap, r, input) == [heap |-> heap, out |-> T_apply(heap, Target(r), input)]

\* impl MutableTransform for &T:     (**self).apply(input)
Ref_apply_mut(heap, r, input) == [heap |-> heap, out |-> T_apply(heap, Target(r), input)]

\* impl OnceTransform for &T:        (*self).apply(input)
Ref_apply_once(heap, r, input) == [heap |-> heap, out |-> T_apply(heap, Target(r), input)]

\* impl MutableTransform for &mut T: (**self).apply_mut(input)
RefMut_apply_mut_on_copy(heap, r, input) ==
    [heap |-> heap, out |-> T_apply_mut(heap, Target(r), input).out]
RefMut_apply_mut(heap, r, input) == T_apply_mut(heap, Target(r), input)

\* impl OnceTransform for &mut T:    (*self).apply_mut(input)
RefMut_apply_once(heap, r, input) == T_apply_mut(heap, Target(r), input)

\* Method dispatch on the binding's type.
Dispatch(heap, op, b, input) ==
    CASE Kind(b) = "owned" /\ op = "apply"      -> [heap |-> heap, out |-> T_apply(heap, b, input)]
      [] Kind(b) = "owned" /\ op = "apply_mut"  -> T_apply_mut(heap, b, input)
      [] Kind(b) = "owned" /\ op = "apply_once" -> T_apply_once(heap, b, input)
      [] Kind(b) = "shared" /\ op = "apply"      -> Ref_apply(heap, b, input)
      [] Kind(b) = "shared" /\ op = "apply_mut"  -> Ref_apply_mut(heap, b, input)
      [] Kind(b) = "shared" /\ op = "apply_once" -> Ref_apply_once(heap, b, input)
      [] Kind(b) = "mut" /\ op = "apply_mut"     -> RefMut_apply_mut(heap, b, input)
      [] Kind(b) = "mut" /\ op = "apply_once"    -> RefMut_apply_once(heap, b, input)

(***************************************************************************)
(* The tier scenario: one thread that owns an Add and a SequencedAdd,      *)
(* borrows them, and calls the capabilities directly and through the       *)
(* references.  A total is threaded through the SequencedAdd, as in its    *)
(* documentation:  total = add.apply_mut(total).                           *)
(***************************************************************************)
MaxSeqLen == 2
MaxCalls  == 3

AddValues   == {1, 5}
SeqValues   == {2, 4}
Inputs      == {10, I32_MAX}
TotalStarts == {0, I32_MAX - 4}

SeqsUpTo(n) == UNION {[1..k -> SeqValues] : k \in 0..n}

NoCall(heap) ==
    [op |-> "none", b |-> "add", input |-> 0, returned |-> FALSE, out |-> 0,
     pre |-> heap, post |-> heap]

InitTiers ==
    /\ obj \in [add : [value : AddValues], seq : [seq : SeqsUpTo(MaxSeqLen)]]
    /\ bind = [b \in Bindings |-> IF b \in Owners THEN "live" ELSE "unborn"]
    /\ ret = NoCall(obj)
    /\ total \in TotalStarts
    /\ hist = [seq0 |-> obj.seq.seq, total0 |-> total, calls |-> 0]
    /\ onced = {}
    /\ afterOnce = {}
    /\ aborted = FALSE

NoLiveRefs(o) == \A r \in Refs : Target(r) = o => bind[r] # "live"
NoLiveMut(o)  == \A r \in MutRefs : Target(r) = o => bind[r] # "live"

\* let r = &owner;   let m = &mut owner;
Borrow(r) ==
    /\ ~aborted
    /\ bind[r] = "unborn"
    /\ bind[Target(r)] = "live"
    /\ IF Kind(r) = "shared" THEN NoLiveMut(Target(r)) ELSE NoLiveRefs(Target(r))
    /\ bind' = [bind EXCEPT ![r] = "live"]
    /\ UNCHANGED <<obj, ret, total, hist, onced, afterOnce, aborted>>
    /\ UNCHANGED outsideTiers

\* The reference goes out of scope.
Release(r) ==
    /\ ~aborted
    /\ bind[r] \in {"live", "moved"}
    /\ bind' = [bind EXCEPT ![r] = "unborn"]
    /\ onced' = onced \ {r}
    /\ UNCHANGED <<obj, ret, total, hist, afterOnce, aborted>>
    /\ UNCHANGED outsideTiers

\* What the borrow checker accepts: the binding holds a value, has the
\* capability, and an owner is not used against its outstanding borrows.
MayCall(op, b) ==
    /\ ~aborted
    /\ bind[b] = "live"
    /\ Implements(b, op)
    /\ Kind(b) = "owned" =>
          IF op = "apply" THEN NoLiveMut(b) ELSE NoLiveRefs(b)
    /\ Target(b) = "seq" => hist.calls < MaxCalls

\* The effect of a call: the next value of every variable it writes.
Effect(op, b, input) ==
    LET r == Dispatch(obj, op, b, input) IN
    [obj |-> r.heap,
     ret |-> [op |-> op, b |-> b, input |-> input, returned |-> r.out.ok,
              out |-> r.out.v, pre |-> obj, post |-> r.heap],
     aborted |-> ~r.out.ok,
     bind |-> IF op = "apply_once" /\ ~IsCopy(b)
              THEN [bind EXCEPT ![b] = "moved"] ELSE bind,
     onced |-> IF op = "apply_once" THEN onced \cup {b} ELSE onced,
     afterOnce |-> IF b \in onced THEN afterOnce \cup {b} ELSE afterOnce,
     total |-> IF Target(b) = "seq" /\ r.out.ok THEN r.out.v ELSE total,
     hist |-> IF Target(b) = "seq"
              THEN [hist EXCEPT !.calls = hist.calls + 1] ELSE hist]

\* An Add is called with any input; the SequencedAdd with the running total.
AddBindings == {b \in Bindings : Target(b) = "add"}
SeqBindings == {b \in Bindings : Target(b) = "seq"}

\* b.apply(input)
Apply(b, input) ==
    LET e == Effect("apply", b, input) IN
    /\ MayCall("apply", b)
    /\ obj' = e.obj /\ ret' = e.ret /\ aborted' = e.aborted /\ bind' = e.bind
    /\ onced' = e.onced /\ afterOnce' = e.afterOnce
    /\ total' = e.total /\ hist' = e.hist
    /\ UNCHANGED outsideTiers

\* b.apply_mut(input)
ApplyMut(b, input) ==
    LET e == Effect("apply_mut", b, input) IN
    /\ MayCall("apply_mut", b)
    /\ obj' = e.obj /\ ret' = e.ret /\ aborted' = e.aborted /\ bind' = e.bind
    /\ onced' = e.onced /\ afterOnce' = e.afterOnce
    /\ total' = e.total /\ hist' = e.hist
    /\ UNCHANGED outsideTiers

\* b.apply_once(input)
ApplyOnce(b, input) ==
    LET e == Effect("apply_once", b, input) IN
    /\ MayCall("apply_once", b)
    /\ obj' = e.obj /\ ret' = e.ret /\ aborted' = e.aborted /\ bind' = e.bind
    /\ onced' = e.onced /\ afterOnce' = e.afterOnce
    /\ total' = e.total /\ hist' = e.hist
    /\ UNCHANGED outsideTiers

TiersNext ==
    \/ \E r \in Refs : Borrow(r)
    \/ \E r \in Refs : Release(r)
    \/ \E b \in AddBindings, input \in Inputs : Apply(b, input)
    \/ \E b \in AddBindings, input \in Inputs : ApplyMut(b, input)
    \/ \E b \in AddBindings, input \in Inputs : ApplyOnce(b, input)
    \/ \E b \in SeqBindings : ApplyMut(b, total)
    \/ \E b \in SeqBindings : ApplyOnce(b, total)

(***************************************************************************)
(* transform.rs: Transform, InversibleTransform, RevertableTransform and   *)
(* the documented pair Add / Sub.  A method taking &self yields            *)
(* [self, out]: the receiver after the call and the result.                *)
(***************************************************************************)
Add_new(n) == [value |-> n]
Sub_new(n) == [value |-> n]

\* impl Transform for Add:  input + self.value()
Add_Transform_apply(self, input) == [self |-> self, out |-> i32_add(input, self.value)]

\* impl Transform for Sub:  input - self.value()
Sub_Transform_apply(self, input) == [self |-> self, out |-> i32_sub(input, self.value)]

\* impl InversibleTransform for Add:  Sub::new(self.value())
Add_invert_off_by_one(self) == [self |-> self, inv |-> Sub_new(self.value - 1)]
Add_invert_in_place(self) ==
    [self |-> Add_new(0 - self.value), inv |-> Sub_new(self.value)]
Add_invert(self) == [self |-> self, inv |-> Sub_new(self.value)]

\* impl RevertableTransform for Sub (written by hand):  input + self.value()
Sub_revert(self, input) == [self |-> self, out |-> i32_add(input, self.value)]

\* The blanket impl's second half, `.apply(input)`: the receiver is the
\* inverse that `self.invert()` has just built.
Revert_apply_self(self, inverse, input) == Add_Transform_apply(self, input).out
Revert_apply(self, inverse, input) == Sub_Transform_apply(inverse, input).out

(***************************************************************************)
(* The sharing scenario: Add and Sub values shared by several execution    *)
(* contexts, each calling apply, invert and revert on them.  The blanket   *)
(* revert takes two steps (invert, then apply on the inverse) and other    *)
(* contexts may run between them.  A call's argument is a fresh value or   *)
(* the output of the apply the context made just before ("chained", with   *)
(* v0 the input of that apply), as in                                      *)
(*     let result = add1.apply(n);  add1.revert(result)                    *)
(*     a = add1.apply(a);  a = add1.invert().apply(a);                     *)
(***************************************************************************)
NumCtx      == 2
MaxInverses == 2

Contexts   == 1..NumCtx
SharedAdds == {1, 5}
SharedSubs == {1}
CallInputs == {10, I32_MIN, I32_MAX}

Arg(i, chained, v0) == [i |-> i, chained |-> chained, v0 |-> v0]
IdleFrame ==
    [pc |-> "idle", op |-> "none", self |-> "add", input |-> 0, inv |-> 0,
     trace |-> <<>>, returned |-> FALSE, out |-> 0, chained |-> FALSE, v0 |-> 0]

InitInvert ==
    /\ shared \in [add : {Add_new(n) : n \in SharedAdds},
                   sub : {Sub_new(n) : n \in SharedSubs}]
    /\ shared0 = shared
    /\ ctx = [c \in Contexts |-> IdleFrame]
    /\ inverses = <<>>
    /\ invertCalls = 0

FreshArgs == {Arg(v, FALSE, 0) : v \in CallInputs}

\* The output of the apply on t that context c has just returned from.
ChainArgs(c, t) ==
    IF /\ ctx[c].pc = "idle" /\ ctx[c].op = "apply"
       /\ ctx[c].self = t /\ ctx[c].returned
    THEN {Arg(ctx[c].out, TRUE, ctx[c].input)}
    ELSE {}

\* The argument carried past `invert()` to the `.apply(a)` that follows it.
CarriedArgs(c) ==
    IF ctx[c].chained THEN {Arg(ctx[c].input, TRUE, ctx[c].v0)} ELSE {}

Finish(f, op, self, a, trace, r) ==
    [pc |-> IF r.ok THEN "idle" ELSE "panicked", op |-> op, self |-> self,
     input |-> a.i, inv |-> 0, trace |-> trace, returned |-> r.ok, out |-> r.v,
     chained |-> a.chained, v0 |-> a.v0]

\* t.apply(input), t the shared Add or Sub
CtxApply(c, t, input) ==
    LET r == IF t = "add" THEN Add_Transform_apply(shared.add, input)
                          ELSE Sub_Transform_apply(shared.sub, input)
    IN
    /\ ctx[c].pc = "idle"
    /\ shared' = [shared EXCEPT ![t] = r.self]
    /\ ctx' = [ctx EXCEPT ![c] =
                 Finish(ctx[c], "apply", t, Arg(input, FALSE, 0), <<>>, r.out)]
    /\ UNCHANGED <<shared0, inverses, invertCalls>>
    /\ UNCHANGED outsideInvert

\* add.invert()
CtxInvert(c) ==
    LET r == Add_invert(shared.add)
        carried == ChainArgs(c, "add") \cup {Arg(0, FALSE, 0)}
        a == CHOOSE x \in carried : x.chained \/ ChainArgs(c, "add") = {}
    IN
    /\ ctx[c].pc = "idle"
    /\ Len(inverses) < MaxInverses
    /\ shared' = [shared EXCEPT !.add = r.self]
    /\ inverses' = Append(inverses, r.inv)
    /\ invertCalls' = invertCalls + 1
    /\ ctx' = [ctx EXCEPT ![c] =
                 [pc |-> "holds_inverse", op |-> "invert", self |-> "add",
                  input |-> a.i, inv |-> Len(inverses) + 1, trace |-> <<>>,
                  returned |-> TRUE, out |-> 0, chained |-> a.chained,
                  v0 |-> a.v0]]
    /\ UNCHANGED shared0
    /\ UNCHANGED outsideInvert

\* .apply(a) on the inverse the context has just built
CtxApplyInverse(c, a) ==
    LET r == Sub_Transform_apply(inverses[ctx[c].inv], a.i) IN
    /\ ctx[c].pc = "holds_inverse"
    /\ ctx' = [ctx EXCEPT ![c] =
                 Finish(ctx[c], "apply_inverse", "add", a, <<>>, r.out)]
    /\ UNCHANGED <<shared, shared0, inverses, invertCalls>>
    /\ UNCHANGED outsideInvert

\* add.revert(a), the blanket impl, first half:  self.invert()
CtxRevert(c, a) ==
    LET r == Add_invert(shared.add) IN
    /\ ctx[c].pc = "idle"
    /\ Len(inverses) < MaxInverses
    /\ shared' = [shared EXCEPT !.add = r.self]
    /\ inverses' = Append(inverses, r.inv)
    /\ invertCalls' = invertCalls + 1
    /\ ctx' = [ctx EXCEPT ![c] =
                 [pc |-> "revert_apply", op |-> "revert", self |-> "add",
                  input |-> a.i, inv |-> Len(inverses) + 1,
                  trace |-> <<"invert">>, returned |-> FALSE, out |-> 0,
                  chained |-> a.chained, v0 |-> a.v0]]
    /\ UNCHANGED shared0
    /\ UNCHANGED outsideInvert

\* add.revert(a), second half:  .apply(input)
CtxRevertApply(c) ==
    LET f == ctx[c]
        r == Revert_apply(shared.add, inverses[f.inv], f.input)
    IN
    /\ f.pc = "revert_apply"
    /\ ctx' = [ctx EXCEPT ![c] =
                 Finish(f, "revert", "add", Arg(f.input, f.chained, f.v0),
                        Append(f.trace, "apply"), r)]
    /\ UNCHANGED <<shared, shared0, inverses, invertCalls>>
    /\ UNCHANGED outsideInvert

\* sub.revert(a), Sub's own impl
CtxRevertSub(c, a) ==
    LET r == Sub_revert(shared.sub, a.i) IN
    /\ ctx[c].pc = "idle"
    /\ shared' = [shared EXCEPT !.sub = r.self]
    /\ ctx' = [ctx EXCEPT ![c] = Finish(ctx[c], "revert", "sub", a, <<>>, r.out)]
    /\ UNCHANGED <<shared0, inverses, invertCalls>>
    /\ UNCHANGED outsideInvert

InvertNext ==
    \/ \E c \in Contexts, t \in {"add", "sub"}, input \in CallInputs :
          CtxApply(c, t, input)
    \/ \E c \in Contexts : CtxInvert(c)
    \/ \E c \in Contexts : \E a \in FreshArgs \cup CarriedArgs(c) :
          CtxApplyInverse(c, a)
    \/ \E c \in Contexts : \E a \in FreshArgs \cup ChainArgs(c, "add") :
          CtxRevert(c, a)
    \/ \E c \in Contexts : CtxRevertApply(c)
    \/ \E c \in Contexts : \E a \in FreshArgs \cup ChainArgs(c, "sub") :
          CtxRevertSub(c, a)

(***************************************************************************)
(* Specifications.  The three components share no state: each is checked   *)
(* on its own, with the other two at rest.                                 *)
(***************************************************************************)
RestPosition == InitPosition
RestTiers ==
    /\ obj = [add |-> [value |-> 1], seq |-> [seq |-> <<>>]]
    /\ bind = [b \in Bindings |-> IF b \in Owners THEN "live" ELSE "unborn"]
    /\ ret = NoCall(obj)
    /\ total = 0
    /\ hist = [seq0 |-> <<>>, total0 |-> 0, calls |-> 0]
    /\ onced = {}
    /\ afterOnce = {}
    /\ aborted = FALSE
RestInvert ==
    /\ shared = [add |-> Add_new(1), sub |-> Sub_new(1)]
    /\ shared0 = shared
    /\ ctx = [c \in Contexts |-> IdleFrame]
    /\ inverses = <<>>
    /\ invertCalls = 0

InitPositionSpec == InitPosition /\ RestTiers /\ RestInvert /\ overflow_checks = TRUE
SpecPosition == InitPositionSpec /\ [][PositionNext]_vars

InitTiersSpec == RestPosition /\ InitTiers /\ RestInvert /\ overflow_checks \in BOOLEAN
SpecTiers == InitTiersSpec /\ [][TiersNext]_vars

InitInvertSpec == RestPosition /\ RestTiers /\ InitInvert /\ overflow_checks \in BOOLEAN
SpecInvert == InitInvertSpec /\ [][InvertNext]_vars

Init == InitPosition /\ InitTiers /\ InitInvert /\ overflow_checks \in BOOLEAN
Next == PositionNext \/ TiersNext \/ InvertNext
Spec == Init /\ [][Next]_vars

(***************************************************************************)
(* Properties of Position (checked under SpecPosition).                    *)
(***************************************************************************)
OfSlot(op) == obs.op = op /\ made[obs.s].ctor = "new"

\* C5 as stated: for all coordinates x and y, Position::new(x, y).x() == x
\* and Position::new(x, y).y() == y, with == the comparison of f64.
C5_AccessorsCompareEqualToArguments ==
    /\ OfSlot("x") => F64Eq(obs.val, made[obs.s].x)
    /\ OfSlot("y") => F64Eq(obs.val, made[obs.s].y)

\* C5 as amended: x() returns the very value given as x (lane 0) and y() the
\* very value given as y (lane 1), never swapped; the result compares == to
\* the argument exactly when the argument is not NaN.
C5_AccessorsReturnTheLaneStored ==
    /\ OfSlot("x") =>
          /\ obs.val = made[obs.s].x
          /\ F64Eq(obs.val, made[obs.s].x) <=> ~IsNaN(made[obs.s].x)
    /\ OfSlot("y") =>
          /\ obs.val = made[obs.s].y
          /\ F64Eq(obs.val, made[obs.s].y) <=> ~IsNaN(made[obs.s].y)

C5_Witness ==
    /\ OfSlot("y")
    /\ made[obs.s] = Made("new", Three, NegTwoAndHalf)
    /\ obs.val = NegTwoAndHalf

IsZeroMade(m) == m.ctor \in {"origin", "default"} \/ m = Made("new", PosZero, PosZero)

\* C6: Position::origin() has x() == y() == 0.0, equals Position::new(0.0, 0.0),
\* and the default Position equals Position::origin().
C6_OriginIsZero ==
    /\ obs.op \in {"x", "y"} /\ made[obs.s].ctor \in {"origin", "default"} =>
          F64Eq(obs.val, PosZero)
    /\ \A s \in Slots : made[s].ctor \in {"origin", "default"} =>
          F64Eq(Position_x(slot[s]), Position_y(slot[s]))
    /\ obs.op = "eq" /\ made[obs.s].ctor \in {"origin", "default"}
          /\ IsZeroMade(made[obs.t]) => obs.res

C6_Witness ==
    /\ obs.op = "eq" /\ obs.res
    /\ made[obs.s].ctor = "origin"
    /\ made[obs.t] = Made("new", PosZero, PosZero)

HasNaN(p) == IsNaN(Position_x(p)) \/ IsNaN(Position_y(p))

\* C7: two positions are equal iff their x components are equal and their y
\* components are equal; equality is reflexive and symmetric where no NaN is
\* involved; a position with a NaN component equals no position, itself
\* included; Position::new(3.0, -2.5) is not equal to Position::origin().
C7_EqualityIsComponentwise ==
    obs.op = "eq" =>
       LET a == slot[obs.s]
           b == slot[obs.t]
       IN
       /\ obs.res <=> /\ F64Eq(Position_x(a), Position_x(b))
                      /\ F64Eq(Position_y(a), Position_y(b))
       /\ obs.res = Position_eq(b, a)
       /\ (obs.s = obs.t /\ ~HasNaN(a)) => obs.res
       /\ (HasNaN(a) \/ HasNaN(b)) => ~obs.res
       /\ (made[obs.s] = Made("new", Three, NegTwoAndHalf)
             /\ made[obs.t].ctor = "origin") => ~obs.res

C7_Witness ==
    /\ obs.op = "eq" /\ ~obs.res
    /\ made[obs.s] = Made("new", Three, NegTwoAndHalf)
    /\ made[obs.t].ctor = "origin"

(***************************************************************************)
(* Properties of the tier hierarchy (checked under SpecTiers).             *)
(***************************************************************************)
Called(op, b) == ret.op = op /\ ret.b = b
Outcome(r) == [ok |-> r.returned, v |-> r.out]

\* C3: a type that implements Transform gives the same output through apply,
\* through apply_mut and through apply_once, for the same input and state.
C3_TierCoherence ==
    /\ ret.op \in Ops /\ Target(ret.b) = "add" =>
          /\ Outcome(ret) = Add_apply(ret.pre.add, ret.input)
          /\ ret.post = ret.pre
    /\ \A i \in Inputs :
          /\ Add_apply_mut(obj.add, i).out = Add_apply(obj.add, i)
          /\ Add_apply_once(obj.add, i) = Add_apply(obj.add, i)

C3_Witness ==
    /\ Called("apply_once", "add")
    /\ ret.pre.add.value = 5 /\ ret.input = 10
    /\ ret.returned /\ ret.out = 15

\* C4: a call through &t returns what t.apply returns; apply_mut through
\* &mut t returns what t.apply_mut returns and leaves t as the direct call
\* would have left it.
C4_ReferenceForwarding ==
    /\ Called("apply", "r_add") =>
          /\ Outcome(ret) = Add_apply(ret.pre.add, ret.input)
          /\ ret.post = ret.pre
    /\ Called("apply_mut", "m_seq") =>
          LET direct == SequencedAdd_apply_mut(ret.pre.seq, ret.input) IN
          /\ Outcome(ret) = direct.out
          /\ ret.post.seq = direct.self
          /\ obj.seq = direct.self
          /\ ret.post.add = ret.pre.add

C4_Witness ==
    /\ Called("apply_mut", "m_seq")
    /\ ret.pre.seq.seq = <<2, 4>> /\ ret.input = 0
    /\ ret.returned /\ ret.out = 4
    /\ obj.seq.seq = <<2>>

RECURSIVE SumSeq(_)
SumSeq(s) == IF Len(s) = 0 THEN 0 ELSE s[1] + SumSeq(Tail(s))
Min(a, b) == IF a < b THEN a ELSE b
LastN(s, m) == SubSeq(s, Len(s) - m + 1, Len(s))

\* C10: SequencedAdd consumes one queued value per call: on a non-empty
\* sequence apply_mut(i) removes the last element v and returns i + v; on an
\* empty one it returns i and the sequence stays empty.  A total threaded
\* through k calls on a sequence of length n has grown by the sum of the last
\* min(k, n) elements ([2, 4] from 0 gives 6 after two calls); apply_once
\* behaves as a single apply_mut.  (i + v is the sum of i32: a call whose sum
\* exceeds i32::MAX panics or wraps to i + v - 2^32, by the build.)
C10_SequencedAddPopsOnePerCall ==
    LET n == Len(hist.seq0)
        m == Min(hist.calls, n)
        pre == ret.pre.seq.seq
    IN
    /\ obj.seq.seq = SubSeq(hist.seq0, 1, n - m)
    /\ (ret.op \in {"apply_mut", "apply_once"} /\ Target(ret.b) = "seq") =>
          IF Len(pre) = 0
          THEN ret.returned /\ ret.out = ret.input /\ ret.post.seq.seq = <<>>
          ELSE /\ ret.post.seq.seq = SubSeq(pre, 1, Len(pre) - 1)
               /\ IF ret.input <= I32_MAX - pre[Len(pre)]
                  THEN ret.returned /\ ret.out = ret.input + pre[Len(pre)]
                  ELSE /\ ret.returned = ~overflow_checks
                       /\ ret.returned =>
                             ret.out - I32_MIN =
                                (ret.input - I32_MAX) + (pre[Len(pre)] - 1)
    /\ (~aborted /\ hist.total0 <= I32_MAX - SumSeq(LastN(hist.seq0, m))) =>
          total = hist.total0 + SumSeq(LastN(hist.seq0, m))
    /\ (hist.seq0 = <<2, 4>> /\ hist.total0 = 0 /\ hist.calls = 2) => total = 6

C10_Witness ==
    /\ hist.seq0 = <<2, 4>> /\ hist.total0 = 0 /\ hist.calls = 3
    /\ Called("apply_once", "seq")
    /\ total = 6 /\ obj.seq.seq = <<>>

(***************************************************************************)
(* Properties of inversion and revert (checked under SpecInvert).          *)
(***************************************************************************)
Done(f) == f.pc \in {"idle", "panicked"}
Result(f) == [ok |-> f.returned, v |-> f.out]
RevertedAdd(f) == f.op = "revert" /\ f.self = "add" /\ Done(f)

\* C1: for a transform with a declared inverse, revert(o) returns exactly what
\* invert().apply(o) returns: it builds the inverse, applies it to o, and
\* does nothing else.
C1_RevertIsInvertThenApply ==
    \A c \in Contexts :
       RevertedAdd(ctx[c]) =>
          /\ ctx[c].trace = <<"invert", "apply">>
          /\ Result(ctx[c]) = Sub_Transform_apply(Add_invert(shared0.add).inv,
                                                  ctx[c].input).out
          /\ \A d \in Contexts :
                (ctx[d].op = "apply_inverse" /\ ctx[d].input = ctx[c].input)
                   => Result(ctx[d]) = Result(ctx[c])

C1_Witness ==
    /\ RevertedAdd(ctx[1]) /\ ctx[1].returned
    /\ ctx[2].op = "apply_inverse" /\ ctx[2].returned
    /\ ctx[1].input = ctx[2].input
    /\ shared0.add.value = 5 /\ ctx[1].input = 10 /\ ctx[1].out = 5

\* C2: round trip: revert(apply(v)) = v and invert().apply(apply(v)) = v,
\* exactly, for every v on which apply returns (Add(5): 10 -> 15 -> 10).
C2_RoundTrip ==
    \A c \in Contexts :
       (ctx[c].chained /\ Done(ctx[c]) /\ ctx[c].op \in {"revert", "apply_inverse"})
          => ctx[c].returned /\ ctx[c].out = ctx[c].v0

C2_Witness ==
    /\ RevertedAdd(ctx[1]) /\ ctx[1].chained
    /\ shared0.add.value = 5
    /\ ctx[1].v0 = 10 /\ ctx[1].input = 15 /\ ctx[1].out = 10
    /\ ctx[2].op = "apply_inverse" /\ ctx[2].chained /\ ctx[2].out = I32_MAX

AloneResult(f) ==
    CASE f.op = "apply" /\ f.self = "add" -> Add_Transform_apply(shared0.add, f.input).out
      [] f.op = "apply" /\ f.self = "sub" -> Sub_Transform_apply(shared0.sub, f.input).out
      [] f.op = "apply_inverse" -> Sub_Transform_apply(Sub_new(shared0.add.value), f.input).out
      [] f.op = "revert" /\ f.self = "add" ->
            Sub_Transform_apply(Sub_new(shared0.add.value), f.input).out
      [] f.op = "revert" /\ f.self = "sub" -> Sub_revert(shared0.sub, f.input).out

\* C9: apply, invert and revert leave the transform they are called on
\* unchanged; every invert builds a new inverse; so in any interleaving of
\* calls from several contexts each call returns what it returns run alone.
C9_SharedCallsDoNotInterfere ==
    /\ shared = shared0
    /\ Len(inverses) = invertCalls
    /\ \A c \in Contexts, d \in Contexts :
          (c # d /\ ctx[c].inv # 0) => ctx[c].inv # ctx[d].inv
    /\ \A c \in Contexts :
          /\ ctx[c].inv # 0 => inverses[ctx[c].inv] = Sub_new(shared0.add.value)
          /\ (Done(ctx[c]) /\ ctx[c].op # "none") => Result(ctx[c]) = AloneResult(ctx[c])

C9_Witness ==
    /\ ctx[1].pc = "revert_apply"
    /\ ctx[2].pc = "holds_inverse"
    /\ ctx[1].inv = 1 /\ ctx[2].inv = 2

====
